---- MODULE Spec2Model ----
(***************************************************************************)
(* The `atommapping` command of openfecli                                  *)
(* (src/openfecli/commands/atommapping.py) as a sequential state machine:  *)
(* one invocation, from click's processing of the --mol parameter to the   *)
(* command's exit, one action per statement that calls a collaborator or   *)
(* decides the control flow.                                               *)
(*                                                                         *)
(* Every Python object is a tuple whose first element names its type      *)
(* (None is <<"None">>); text (messages, printed lines, bytes) is a        *)
(* sequence of string tokens.                                              *)
(***************************************************************************)
EXTENDS Naturals, Sequences, FiniteSets, TLC

(* ------------------------------ bounds --------------------------------- *)

\* the largest number of --mol values on the command line
MaxMols == 3

\* the largest number of mappings the mapper's suggestion routine yields
MaxMappings == 2

(* --------------------------- input domains ----------------------------- *)

None == <<"None">>

\* the --mol strings a user may give
MolStrs == {"CC", "CCO"}

\* the --mapper names a user may give
MapperNames == {"LomapAtomMapper"}

\* the --output values: absent, or a file name as its '.'-separated parts
OutputNames == {None, <<"name", "out", "png">>, <<"name", "out", "bmp">>,
                <<"name", "png", "bmp">>}

\* the correspondence tables a mapping may carry: a dict as its items in
\* insertion order, each item <<key, value>>
Tables == { <<>>, << <<0, 1>> >>, << <<0, 1>>, <<1, 0>> >> }

SeqsUpTo(S, n) == UNION { [1..k -> S] : k \in 0..n }

(* ------------------------ external collaborators ----------------------- *)

\* MOL.get: the molecule resolver, an opaque handle for the string
MolGet(mol_str) == <<"Molecule", mol_str>>

\* MAPPER.get: the mapper registry, the class registered under the name
MapperGet(name) == <<"class", name>>

\* mapper_cls(): an instance of the class
Instantiate(cls) == <<"instance", cls[2]>>

Last(s) == s[Len(s)]

\* OUTPUT_FILE_AND_EXT.get: the file (None when no --output was given) and
\* its extension, the part of the name after the last '.'
OutputGet(out) == IF out = None THEN <<None, None>>
                  ELSE << <<"File">> \o Tail(out), <<"str", Last(out)>> >>

\* Molecule.to_rdkit: the toolkit's native molecule
ToRdkit(m) == <<"RDMol", m[2]>>

\* what mapper.suggest_mappings(a, b) may yield: up to MaxMappings mappings
\* between a and b, each with a correspondence table of its own
Mapping(a, b, table) == <<"Mapping", a, b, table>>
Mol1Of(m) == m[2]
Mol2Of(m) == m[3]
Mol1ToMol2(m) == m[4]

SuggestMappings(a, b) ==
    { [i \in DOMAIN ts |-> Mapping(a, b, ts[i])] :
        ts \in SeqsUpTo(Tables, MaxMappings) }

RECURSIVE TableTokens(_)
TableTokens(t) ==
    IF t = <<>> THEN <<>>
    ELSE LET rest == TableTokens(Tail(t))
             item == <<ToString(Head(t)[1]), ": ", ToString(Head(t)[2])>>
         IN IF rest = <<>> THEN item ELSE item \o <<", ">> \o rest

\* str(dict), the text print() writes for a dict
DictStr(t) == <<"{">> \o TableTokens(t) \o <<"}">>

\* visualization.draw_mapping: the image bytes, a signature and then the
\* rendering of what was passed in
DrawMapping(table, rd1, rd2, d2d) ==
    <<"\\x89PNG">> \o d2d \o rd1 \o rd2 \o DictStr(table)

(* ------------------------------- state --------------------------------- *)

VARIABLES
    pc,           \* the statement the invocation is at
    mol,          \* the --mol values, in command-line order
    mapper,       \* the --mapper value
    output,       \* the --output value
    mol1_str, mol2_str,   \* atommapping's locals
    mol1, mol2,
    mapper_cls, mapper_obj,
    file, ext,
    caller,       \* the function generate_mapping returns to
    mappings,     \* generate_mapping's local
    mapping,      \* the mapping generate_mapping returned
    artist,       \* atommapping_visualize_main's locals
    contents,
    stdout,       \* the lines printed
    written,      \* the writes made to the output file
    calls,        \* the collaborators called, in order
    suggest_args, \* the arguments of each suggest_mappings call
    err           \* the exception that ended the invocation

vars == <<pc, mol, mapper, output, mol1_str, mol2_str, mol1, mol2, mapper_cls,
          mapper_obj, file, ext, caller, mappings, mapping, artist, contents,
          stdout, written, calls, suggest_args, err>>

inputs == <<mol, mapper, output>>
effects == <<stdout, written, calls, suggest_args>>

Init ==
    /\ pc = "mol_param"
    /\ mol \in SeqsUpTo(MolStrs, MaxMols)
    /\ mapper \in MapperNames
    /\ output \in OutputNames
    /\ mol1_str = None /\ mol2_str = None
    /\ mol1 = None /\ mol2 = None
    /\ mapper_cls = None /\ mapper_obj = None
    /\ file = None /\ ext = None
    /\ caller = None
    /\ mappings = None /\ mapping = None
    /\ artist = None /\ contents = None
    /\ stdout = <<>> /\ written = <<>>
    /\ calls = <<>> /\ suggest_args = <<>>
    /\ err = None

(* --------------------------- the exceptions ---------------------------- *)

Exception(kind, message) == <<"Exception", kind, message>>
KindOf(e) == e[2]
MessageOf(e) == e[3]

\* the parameter errors: click.BadParameter and click.MissingParameter, a
\* click.BadParameter itself; a plain click.UsageError is not one
ParameterErrors == {"BadParameter", "MissingParameter"}

\* raise: the exception leaves the command, nothing catches it
Raise(e) ==
    /\ pc' = "error"
    /\ err' = e

(* ----------------------- click's --mol processing ---------------------- *)

\* required=True: an option given no value at all is missing
MolRequired(value) == Len(value) = 0

\* a callback that rejects too few values only
allow_at_least_two(value) ==
    IF Len(value) < 2
    THEN Exception("BadParameter", <<"Must specify --mol exactly twice.">>)
    ELSE None

\* allow_two_molecules: the exception it raises, None when it returns value
allow_two_molecules(value) ==
    IF Len(value) # 2
    THEN Exception("BadParameter", <<"Must specify --mol exactly twice.">>)
    ELSE None

MolParameter ==
    /\ pc = "mol_param"
    /\ IF MolRequired(mol)
       THEN Raise(Exception("MissingParameter", <<"Missing option '--mol'.">>))
       ELSE IF allow_two_molecules(mol) # None
            THEN Raise(allow_two_molecules(mol))
            ELSE pc' = "unpack" /\ UNCHANGED err
    /\ UNCHANGED <<inputs, effects, mol1_str, mol2_str, mol1, mol2, mapper_cls,
                   mapper_obj, file, ext, caller, mappings, mapping, artist,
                   contents>>

(* ----------------------------- atommapping ----------------------------- *)

\* mol1_str, mol2_str = mol
UnpackMol ==
    /\ pc = "unpack"
    /\ mol1_str' = <<"str", mol[1]>>
    /\ mol2_str' = <<"str", mol[2]>>
    /\ pc' = "get_mol1"
    /\ UNCHANGED <<inputs, effects, mol1, mol2, mapper_cls, mapper_obj, file,
                   ext, caller, mappings, mapping, artist, contents, err>>

\* mol1 = MOL.get(mol1_str)
GetMol1 ==
    /\ pc = "get_mol1"
    /\ mol1' = MolGet(mol1_str[2])
    /\ calls' = Append(calls, "MOL.get")
    /\ pc' = "get_mol2"
    /\ UNCHANGED <<inputs, stdout, written, suggest_args, mol1_str, mol2_str,
                   mol2, mapper_cls, mapper_obj, file, ext, caller, mappings,
                   mapping, artist, contents, err>>

\* mol2 = MOL.get(mol2_str)
GetMol2 ==
    /\ pc = "get_mol2"
    /\ mol2' = MolGet(mol2_str[2])
    /\ calls' = Append(calls, "MOL.get")
    /\ pc' = "get_mapper"
    /\ UNCHANGED <<inputs, stdout, written, suggest_args, mol1_str, mol2_str,
                   mol1, mapper_cls, mapper_obj, file, ext, caller, mappings,
                   mapping, artist, contents, err>>

\* mapper_cls = MAPPER.get(mapper)
GetMapperCls ==
    /\ pc = "get_mapper"
    /\ mapper_cls' = MapperGet(mapper)
    /\ calls' = Append(calls, "MAPPER.get")
    /\ pc' = "new_mapper"
    /\ UNCHANGED <<inputs, stdout, written, suggest_args, mol1_str, mol2_str,
                   mol1, mol2, mapper_obj, file, ext, caller, mappings,
                   mapping, artist, contents, err>>

\* mapper_obj = mapper_cls()
NewMapper ==
    /\ pc = "new_mapper"
    /\ mapper_obj' = Instantiate(mapper_cls)
    /\ calls' = Append(calls, "mapper_cls")
    /\ pc' = "get_output"
    /\ UNCHANGED <<inputs, stdout, written, suggest_args, mol1_str, mol2_str,
                   mol1, mol2, mapper_cls, file, ext, caller, mappings,
                   mapping, artist, contents, err>>

\* file, ext = OUTPUT_FILE_AND_EXT.get(output)
GetOutput ==
    /\ pc = "get_output"
    /\ file' = OutputGet(output)[1]
    /\ ext' = OutputGet(output)[2]
    /\ calls' = Append(calls, "OUTPUT_FILE_AND_EXT.get")
    /\ pc' = "dispatch"
    /\ UNCHANGED <<inputs, stdout, written, suggest_args, mol1_str, mol2_str,
                   mol1, mol2, mapper_cls, mapper_obj, caller, mappings,
                   mapping, artist, contents, err>>

\* the branches of `if file:` exchanged
DispatchedInverted(f) ==
    IF f = None THEN "atommapping_visualize_main"
    ELSE "atommapping_print_dict_main"

\* `if file:` : the function the command hands over to
Dispatched(f) ==
    IF f # None THEN "atommapping_visualize_main"
    ELSE "atommapping_print_dict_main"

\* atommapping_visualize_main looking the extension up first
FirstStatementLookup(fn) ==
    IF fn = "atommapping_visualize_main" THEN "lookup_artist" ELSE "suggest"

\* the first statement of either function: mapping = generate_mapping(...)
FirstStatement(fn) == "suggest"

\* if file: atommapping_visualize_main(...) else:
\* atommapping_print_dict_main(...)
Dispatch ==
    /\ pc = "dispatch"
    /\ caller' = <<"function", Dispatched(file)>>
    /\ pc' = FirstStatement(Dispatched(file))
    /\ UNCHANGED <<inputs, effects, mol1_str, mol2_str, mol1, mol2, mapper_cls,
                   mapper_obj, file, ext, mappings, mapping, artist, contents,
                   err>>

(* --------------------------- generate_mapping --------------------------- *)

\* the two molecules exchanged on the way
SuggestCallSwapped(mapper_, m1, m2) == <<mapper_, m2, m1>>

\* the arguments the command's (mapper_obj, mol1, mol2) reach
\* mapper.suggest_mappings with, through atommapping_*_main and
\* generate_mapping: the receiver, then the two molecules
SuggestCall(mapper_, m1, m2) == <<mapper_, m1, m2>>

\* mappings = list(mapper.suggest_mappings(mol1, mol2))
Suggest ==
    /\ pc = "suggest"
    /\ LET call == SuggestCall(mapper_obj, mol1, mol2)
       IN /\ suggest_args' = Append(suggest_args, call)
          /\ mappings' \in SuggestMappings(call[2], call[3])
    /\ calls' = Append(calls, "suggest_mappings")
    /\ pc' = "check_count"
    /\ UNCHANGED <<inputs, stdout, written, mol1_str, mol2_str, mol1, mol2,
                   mapper_cls, mapper_obj, file, ext, caller, mapping, artist,
                   contents, err>>

\* a check that rejects an empty yield only
WrongCountEmptyOnly(ms) == Len(ms) = 0

\* len(mappings) != 1
WrongCount(ms) == Len(ms) # 1

\* the message without its f prefix: the count is never substituted
CountMessageLiteral(ms) ==
    <<"Found {len(mappings)} mappings; this command requires a mapper ",
      "to provide exactly 1 mapping">>

\* f"Found {len(mappings)} mappings; this command requires a mapper "
\* "to provide exactly 1 mapping"
CountMessage(ms) ==
    <<"Found ", ToString(Len(ms)),
      " mappings; this command requires a mapper ",
      "to provide exactly 1 mapping">>

\* mappings[0]
Returned(ms) == ms[1]

\* a wrong count answered by asking the mapper once more
CheckCountRetry ==
    /\ pc = "check_count"
    /\ IF WrongCount(mappings)
       THEN IF Len(suggest_args) < 2
            THEN pc' = "suggest" /\ UNCHANGED <<mapping, err>>
            ELSE /\ Raise(Exception("UsageError", CountMessage(mappings)))
                 /\ UNCHANGED mapping
       ELSE /\ mapping' = Returned(mappings)
            /\ pc' = IF caller[2] = "atommapping_print_dict_main"
                     THEN "print" ELSE "lookup_artist"
            /\ UNCHANGED err
    /\ UNCHANGED <<inputs, effects, mol1_str, mol2_str, mol1, mol2, mapper_cls,
                   mapper_obj, file, ext, caller, mappings, artist, contents>>

\* if len(mappings) != 1: raise click.UsageError(...); return mappings[0]
CheckCount ==
    /\ pc = "check_count"
    /\ IF WrongCount(mappings)
       THEN /\ Raise(Exception("UsageError", CountMessage(mappings)))
            /\ UNCHANGED mapping
       ELSE /\ mapping' = Returned(mappings)
            /\ pc' = IF caller[2] = "atommapping_print_dict_main"
                     THEN "print" ELSE "lookup_artist"
            /\ UNCHANGED err
    /\ UNCHANGED <<inputs, effects, mol1_str, mol2_str, mol1, mol2, mapper_cls,
                   mapper_obj, file, ext, caller, mappings, artist, contents>>

(* ---------------------- atommapping_print_dict_main --------------------- *)

\* the table read from mol2 to mol1
Inverse(t) == [i \in DOMAIN t |-> <<t[i][2], t[i][1]>>]

\* print of the inverse table
PrintedInverse(m) == <<DictStr(Inverse(Mol1ToMol2(m)))>>

\* what print(mapping.mol1_to_mol2) adds to stdout
Printed(m) == <<DictStr(Mol1ToMol2(m))>>

\* print(mapping.mol1_to_mol2)
PrintDict ==
    /\ pc = "print"
    /\ stdout' = stdout \o Printed(mapping)
    /\ calls' = Append(calls, "print")
    /\ pc' = "done"
    /\ UNCHANGED <<inputs, written, suggest_args, mol1_str, mol2_str, mol1,
                   mol2, mapper_cls, mapper_obj, file, ext, caller, mappings,
                   mapping, artist, contents, err>>

(* ---------------------- atommapping_visualize_main ---------------------- *)

\* ext_to_artist = {"png": Draw.rdMolDraw2D.MolDraw2DCairo(600, 300, 300, 300)}
ext_to_artist ==
    [e \in {"png"} |-> <<"MolDraw2DCairo", "600", "300", "300", "300">>]

RECURSIVE Quoted(_)
\* [f"'{ext}'" for ext in ext_to_artist] joined with ", "
Quoted(exts) ==
    IF exts = {} THEN <<>>
    ELSE LET e == CHOOSE x \in exts : TRUE
             rest == Quoted(exts \ {e})
         IN <<"'", e, "'">> \o (IF rest = <<>> THEN <<>> ELSE <<", ">> \o rest)

\* the comprehension's variable read as the requested extension
FormatMessageLeak(e) ==
    <<"Unknown file format: '", e, "'. The following formats are ",
      "supported: ", "'", e, "'">>

\* f"Unknown file format: '{ext}'. The following formats are supported: " + ...
FormatMessage(e) ==
    <<"Unknown file format: '", e, "'. The following formats are ",
      "supported: ">> \o Quoted(DOMAIN ext_to_artist)

\* f"{ext}": the string itself, "None" for None
Format(e) == IF e = None THEN "None" ELSE e[2]

\* ext in ext_to_artist: None is no key of it
HasArtist(e) == e # None /\ e[2] \in DOMAIN ext_to_artist

\* artist = ext_to_artist[ext], a KeyError becoming click.BadParameter
LookupArtist ==
    /\ pc = "lookup_artist"
    /\ calls' = Append(calls, "ext_to_artist")
    /\ IF HasArtist(ext)
       THEN /\ artist' = ext_to_artist[ext[2]]
            /\ pc' = "draw"
            /\ UNCHANGED err
       ELSE /\ Raise(Exception("BadParameter", FormatMessage(Format(ext))))
            /\ UNCHANGED artist
    /\ UNCHANGED <<inputs, stdout, written, suggest_args, mol1_str, mol2_str,
                   mol1, mol2, mapper_cls, mapper_obj, file, ext, caller,
                   mappings, mapping, contents>>

\* the two molecules drawn in the other order
DrawnSwapped(m, d2d) ==
    DrawMapping(Mol1ToMol2(m), ToRdkit(Mol2Of(m)), ToRdkit(Mol1Of(m)), d2d)

\* draw_mapping(mapping.mol1_to_mol2, mapping.mol1.to_rdkit(),
\*              mapping.mol2.to_rdkit(), d2d=artist)
Drawn(m, d2d) ==
    DrawMapping(Mol1ToMol2(m), ToRdkit(Mol1Of(m)), ToRdkit(Mol2Of(m)), d2d)

\* contents = visualization.draw_mapping(...)
Draw ==
    /\ pc = "draw"
    /\ contents' = <<"bytes">> \o Drawn(mapping, artist)
    /\ calls' = Append(calls, "draw_mapping")
    /\ pc' = "write"
    /\ UNCHANGED <<inputs, stdout, written, suggest_args, mol1_str, mol2_str,
                   mol1, mol2, mapper_cls, mapper_obj, file, ext, caller,
                   mappings, mapping, artist, err>>

\* file.write(contents)
Write ==
    /\ pc = "write"
    /\ written' = Append(written, Tail(contents))
    /\ calls' = Append(calls, "file.write")
    /\ pc' = "done"
    /\ UNCHANGED <<inputs, stdout, suggest_args, mol1_str, mol2_str, mol1,
                   mol2, mapper_cls, mapper_obj, file, ext, caller, mappings,
                   mapping, artist, contents, err>>

(* --------------------------- the specification -------------------------- *)

Next ==
    \/ MolParameter
    \/ UnpackMol
    \/ GetMol1
    \/ GetMol2
    \/ GetMapperCls
    \/ NewMapper
    \/ GetOutput
    \/ Dispatch
    \/ Suggest
    \/ CheckCount
    \/ PrintDict
    \/ LookupArtist
    \/ Draw
    \/ Write

Spec == Init /\ [][Next]_vars

(* ------------------------- the claims' vocabulary ----------------------- *)

Ended == pc \in {"done", "error"}

Called(fn) == \E i \in DOMAIN calls : calls[i] = fn

Times(fn) == Cardinality({i \in DOMAIN calls : calls[i] = fn})

Contains(s, x) == \E i \in DOMAIN s : s[i] = x

\* generate_mapping has called the suggestion routine and counted its yield
Counted == Called("suggest_mappings") /\ pc # "check_count"

\* the extension of the requested output file has no renderer
Unsupported == output # None /\ Last(output) \notin DOMAIN ext_to_artist

\* the exception is the unsupported-format one
IsFormatError(e) ==
    /\ e # None
    /\ KindOf(e) \in ParameterErrors
    /\ MessageOf(e)[1] = "Unknown file format: '"

\* the exception is the mapping-count one, for a count of n
IsCountError(e, n) ==
    /\ e # None
    /\ KindOf(e) = "UsageError"
    /\ MessageOf(e)[1] = "Found "
    /\ Contains(MessageOf(e), ToString(n))

\* the message names every supported format after "supported: "
ListsSupported(msg) ==
    \A e \in DOMAIN ext_to_artist :
        \E i \in DOMAIN msg :
            /\ msg[i] = e
            /\ \E j \in 1..(i - 1) : msg[j] = "supported: "

NoOutput == stdout = <<>> /\ written = <<>>

(* -------------------------------- claims -------------------------------- *)

\* C1: when the number of --mol values is not exactly 2, the command fails
\* with a parameter error and its body never runs: no molecule is resolved,
\* no mapper is instantiated, the suggestion routine is not called and no
\* output is produced.
C1_MolCount ==
    Len(mol) # 2 =>
        /\ pc \in {"mol_param", "error"}
        /\ pc = "error" => KindOf(err) \in ParameterErrors
        /\ calls = <<>> /\ suggest_args = <<>>
        /\ mol1 = None /\ mol2 = None
        /\ mapper_cls = None /\ mapper_obj = None
        /\ NoOutput

C1_Witness ==
    /\ pc = "error"
    /\ Len(mol) = 3
    /\ KindOf(err) = "BadParameter"

\* C2: when the suggestion routine yields n # 1 mappings, generate_mapping
\* fails with a usage error whose message contains n and returns no mapping,
\* on the print path and on the image path.
C2_WrongCount ==
    (Counted /\ Len(mappings) # 1) =>
        /\ pc = "error"
        /\ IsCountError(err, Len(mappings))
        /\ mapping = None
        /\ caller[2] \in {"atommapping_print_dict_main",
                          "atommapping_visualize_main"}

C2_Witness ==
    /\ pc = "error"
    /\ Counted
    /\ Len(mappings) = 2
    /\ caller[2] = "atommapping_visualize_main"
    /\ Contains(MessageOf(err), "2")

\* C3: with exactly two molecules, no output file and a mapper yielding
\* exactly one mapping, the command succeeds and prints to stdout exactly
\* the mol1_to_mol2 table of that mapping, once.
C3_PrintsTable ==
    (Len(mol) = 2 /\ output = None /\ Counted /\ Len(mappings) = 1) =>
        /\ err = None
        /\ pc \in {"print", "done"}
        /\ pc = "print" => stdout = <<>>
        /\ pc = "done" =>
            /\ stdout = <<DictStr(Mol1ToMol2(mappings[1]))>>
            /\ Times("print") = 1
        /\ written = <<>>

C3_Witness ==
    /\ pc = "done"
    /\ output = None
    /\ Len(mappings) = 1
    /\ stdout = << <<"{", "0", ": ", "1", "}">> >>

\* C4 as stated: every invocation with exactly two molecules that requests
\* an output file whose extension has no registered renderer fails with a
\* parameter error whose message lists the supported formats, and writes
\* nothing to the output file.
C4_AsStated ==
    (Len(mol) = 2 /\ Unsupported) =>
        /\ written = <<>>
        /\ pc # "done"
        /\ pc = "error" =>
            /\ KindOf(err) \in ParameterErrors
            /\ ListsSupported(MessageOf(err))

\* C4, amended: an invocation with exactly two molecules that requests an
\* output file whose extension has no registered renderer always fails and
\* writes nothing to the output file; it fails with a parameter error whose
\* message lists the supported formats when the mapper yielded exactly one
\* mapping, and with the mapping-count usage error otherwise.
C4_Unsupported ==
    (Len(mol) = 2 /\ Unsupported) =>
        /\ written = <<>>
        /\ pc # "done"
        /\ pc = "error" =>
            /\ Counted
            /\ Len(mappings) = 1 =>
                /\ IsFormatError(err)
                /\ MessageOf(err)[2] = Last(output)
                /\ ListsSupported(MessageOf(err))
            /\ Len(mappings) # 1 => IsCountError(err, Len(mappings))

C4_Witness ==
    /\ pc = "error"
    /\ Len(mol) = 2
    /\ output = <<"name", "out", "bmp">>
    /\ Len(mappings) = 1
    /\ KindOf(err) = "BadParameter"
    /\ Contains(MessageOf(err), "png")

\* C5: with exactly two molecules, an output file with extension "png" and
\* a mapper yielding exactly one mapping, the command succeeds and makes
\* exactly one write to the file, of the bytes the drawing routine returns
\* for that mapping's table and its two molecules.
C5_WritesImage ==
    (Len(mol) = 2 /\ output # None /\ Last(output) = "png"
        /\ Counted /\ Len(mappings) = 1) =>
        /\ err = None
        /\ pc \in {"lookup_artist", "draw", "write", "done"}
        /\ pc # "done" => written = <<>>
        /\ pc = "done" =>
            /\ written =
                << DrawMapping(Mol1ToMol2(mappings[1]),
                               ToRdkit(Mol1Of(mappings[1])),
                               ToRdkit(Mol2Of(mappings[1])),
                               ext_to_artist["png"]) >>
            /\ Len(written[1]) > 0
            /\ Times("file.write") = 1
            /\ Times("draw_mapping") = 1
        /\ stdout = <<>>

C5_Witness ==
    /\ pc = "done"
    /\ mol = <<"CC", "CCO">>
    /\ output = <<"name", "out", "png">>
    /\ Len(written) = 1
    /\ Len(written[1]) > 0
    /\ Mol1ToMol2(mapping) = << <<0, 1>>, <<1, 0>> >>

\* C6: the output path is chosen by whether an output file was requested
\* alone: with one the command takes the image path and never prints, with
\* none it takes the textual path and never writes a file; no invocation
\* takes both paths or produces both outputs.
C6_OnePath ==
    /\ caller # None =>
        caller[2] = IF output # None THEN "atommapping_visualize_main"
                    ELSE "atommapping_print_dict_main"
    /\ output # None =>
        /\ stdout = <<>>
        /\ ~Called("print")
    /\ output = None =>
        /\ written = <<>>
        /\ ~Called("ext_to_artist")
        /\ ~Called("draw_mapping")
        /\ ~Called("file.write")
    /\ ~(stdout # <<>> /\ written # <<>>)
    /\ ~(Called("print") /\ Called("file.write"))

C6_Witness ==
    /\ pc = "done"
    /\ output # None
    /\ written # <<>>
    /\ stdout = <<>>

\* C7: if any output has been produced (a table printed, bytes written)
\* then exactly two molecules were supplied and the mapper yielded exactly
\* one mapping; an invocation that ends in an error has printed no table
\* and written no bytes.
C7_OutputImpliesValid ==
    /\ ~NoOutput =>
        /\ Len(mol) = 2
        /\ Counted
        /\ Len(mappings) = 1
    /\ (pc = "error" \/ err # None) => NoOutput

C7_Witness ==
    /\ pc = "done"
    /\ stdout # <<>>
    /\ Len(mol) = 2
    /\ Len(mappings) = 1

\* C8: no error is recovered or retried: the suggestion routine is called
\* at most once, an exception is raised exactly when the invocation ends in
\* error, and once it has been raised the command takes no further step.
C8_NoRecovery ==
    /\ [](/\ Len(suggest_args) <= 1
          /\ Times("suggest_mappings") <= 1
          /\ (err # None) <=> (pc = "error"))
    /\ [][pc # "error" /\ err = None]_vars

C8_Witness ==
    /\ pc = "error"
    /\ err # None
    /\ Times("suggest_mappings") = 1
    /\ Len(mappings) = 0

\* C9: the suggestion routine is called only after both molecule references
\* and the mapper name have been resolved and the mapper instantiated, and
\* with the molecules in command-line order: the molecule of the first
\* --mol value first, that of the second --mol value second.
C9_CallOrder ==
    Called("suggest_mappings") =>
        /\ Len(calls) >= 5
        /\ SubSeq(calls, 1, 4) =
                <<"MOL.get", "MOL.get", "MAPPER.get", "mapper_cls">>
        /\ \A i \in DOMAIN calls :
                calls[i] = "suggest_mappings" => i > 4
        /\ Len(suggest_args) = Times("suggest_mappings")
        /\ \A i \in DOMAIN suggest_args :
                suggest_args[i] = << Instantiate(MapperGet(mapper)),
                                     MolGet(mol[1]), MolGet(mol[2]) >>

C9_Witness ==
    /\ Called("suggest_mappings")
    /\ mol = <<"CCO", "CC">>
    /\ suggest_args[1][2] = <<"Molecule", "CCO">>
    /\ suggest_args[1][3] = <<"Molecule", "CC">>

\* C10: on the image path the mapping-count check runs before the extension
\* check: the suggestion routine is called before the extension is looked
\* up, an invocation with an unsupported extension and a mapper yielding
\* n # 1 mappings ends in the mapping-count usage error, and the
\* unsupported-format error is raised only when exactly one mapping was
\* generated.
C10_CountBeforeFormat ==
    /\ \A i \in DOMAIN calls :
            calls[i] = "ext_to_artist" =>
                \E j \in 1..(i - 1) : calls[j] = "suggest_mappings"
    /\ Called("ext_to_artist") => Len(mappings) = 1
    /\ (Unsupported /\ Counted /\ Len(mappings) # 1) =>
        /\ pc = "error"
        /\ IsCountError(err, Len(mappings))
        /\ ~IsFormatError(err)
        /\ ~Called("ext_to_artist")
    /\ IsFormatError(err) =>
        /\ Counted
        /\ Len(mappings) = 1

C10_Witness ==
    /\ pc = "error"
    /\ Unsupported
    /\ Counted
    /\ Len(mappings) = 0
    /\ KindOf(err) = "UsageError"
====
